---- MODULE Spec2Model ----
(***************************************************************************)
(* purifycss: purify(searchThrough, css, options, callback) removes the    *)
(* CSS selectors that do not occur in a body of content.                   *)
(*                                                                         *)
(* Text is modelled as a sequence of one-character strings.  CSS text is   *)
(* modelled as a sequence of lexical tokens [t |-> type, v |-> value];     *)
(* the token types clazz, shash, ident, attrib and s are the node types    *)
(* getRuleString switches on.                                              *)
(*                                                                         *)
(* src/purifycss.js is modelled from its code.  CssSyntaxTree.js and       *)
(* ContentSelectorExtraction.js are required by it but are not among the   *)
(* sources; they are modelled from the specification (sections 4.1-4.5).   *)
(***************************************************************************)
EXTENDS Integers, Sequences, FiniteSets, TLC

VARIABLES
  searchThrough,  \* argument 1: [array |-> BOOLEAN, val |-> text or file paths]
  css,            \* argument 2: [array |-> BOOLEAN, val |-> css text or file paths]
  options,        \* argument 3: the caller's options object (or a function)
  callback,       \* argument 4: "fn" or "undefined"
  throwAt,        \* environment: per content source, the UglifyJS step that throws
  defaults,       \* the module-level object DEFAULT_OPTIONS
  elements,       \* the module-level array htmlEls
  compressor,     \* the property `compressor' of the global object
  pc,             \* "ready" (before the call) or "returned"
  calls,          \* number of invocations of purify so far
  returned,       \* what the last invocation returned to its caller
  cbArgs,         \* the arguments the caller's callback has been called with
  stderr,         \* the lines logged through console.error
  pending,        \* fs.writeFile requests whose completion callback has not run
  disk,           \* the files written so far: set of [path, data]
  writeFailed,    \* TRUE once an fs.writeFile has completed with an error
  content,        \* the corpus purify matched against (last invocation)
  cssString,      \* the css text purify parsed (last invocation)
  source,         \* the purified css of the last invocation
  rejected,       \* rejectedSelectorTwigs.concat(rejectedAtRuleTwigs), last invocation
  firstSource,    \* the purified css of the first invocation
  firstCssString, \* the css text the first invocation parsed
  usage           \* the names purify found in the content (last invocation)

vars == <<searchThrough, css, options, callback, throwAt, defaults, elements,
          compressor, pc, calls, returned, cbArgs, stderr, pending, disk,
          writeFailed, content, cssString, source, rejected, firstSource,
          firstCssString, usage>>

----------------------------------------------------------------------------
(* Bounds of the model *)

MaxContentLen == 2   \* longest content string passed directly
MaxNodes == 2        \* most top-level nodes in a generated stylesheet
MaxFiles == 2        \* most file paths in an array argument
MaxCalls == 2        \* most invocations of purify in one behaviour

----------------------------------------------------------------------------
(* Text *)

Alphabet == {"a", "b", "g", "A", ":", " "}

\* String.prototype.toLowerCase, character by character
lowerChar(c) == CASE c = "A" -> "a" [] c = "B" -> "b" [] c = "G" -> "g" [] OTHER -> c

toLowerCase(str) == [i \in 1..Len(str) |-> lowerChar(str[i])]

\* The characters of the names that can be spelled with the model's alphabet.
\* Every other name holds a character outside the alphabet; it is spelled as
\* one symbol that no content holds.
chars(w) ==
  CASE w = "a" -> <<"a">>
    [] w = "b" -> <<"b">>
    [] w = "g" -> <<"g">>
    [] w = "A" -> <<"A">>
    [] w = "ab" -> <<"a", "b">>
    [] w = "a\\:" -> <<"a", "\\", ":">>
    [] OTHER -> <<w>>

\* String.prototype.indexOf(word) > -1
includes(text, word) ==
  \E i \in 0..(Len(text) - Len(word)) :
     \A k \in 1..Len(word) : text[i + k] = word[k]

RECURSIVE SeqsUpTo(_, _)
SeqsUpTo(S, n) ==
  IF n = 0 THEN {<<>>}
  ELSE LET shorter == SeqsUpTo(S, n - 1)
       IN shorter \cup {Append(q, x) : q \in {r \in shorter : Len(r) = n - 1}, x \in S}

----------------------------------------------------------------------------
(* The module-level data of purifycss.js *)

\* the values of the options are written as strings
DEFAULT_OPTIONS == [write |-> "false", minify |-> "false", info |-> "false"]

htmlEls ==
  <<
  "h1", "h2", "h3", "h4", "h5", "h6", "a", "abbr", "acronym", "address",
  "applet", "area", "article", "aside", "audio", "b", "base", "basefont",
  "bdi", "bdo", "bgsound", "big", "blink", "blockquote", "body", "br",
  "button", "canvas", "caption", "center", "cite", "code", "col",
  "colgroup", "command", "content", "data", "datalist", "dd", "del",
  "details", "dfn", "dialog", "dir", "div", "dl", "dt", "element", "em",
  "embed", "fieldset", "figcaption", "figure", "font", "footer", "form",
  "frame", "frameset", "head", "header", "hgroup", "hr", "html", "i",
  "iframe", "image", "img", "input", "ins", "isindex", "kbd", "keygen",
  "label", "legend", "li", "link", "listing", "main", "map", "mark",
  "marquee", "menu", "menuitem", "meta", "meter", "multicol", "nav",
  "nobr", "noembed", "noframes", "noscript", "object", "ol", "optgroup",
  "option", "output", "p", "param", "picture", "plaintext", "pre",
  "progress", "q", "rp", "rt", "rtc", "ruby", "s", "samp", "script",
  "section", "select", "shadow", "small", "source", "spacer", "span",
  "strike", "strong", "style", "sub", "summary", "sup", "table", "tbody",
  "td", "template", "textarea", "tfoot", "th", "thead", "time", "title",
  "tr", "track", "tt", "u", "ul", "var", "video", "wbr", "xmp"
  >>

----------------------------------------------------------------------------
(* Files read with fs.readFileSync *)

ContentPaths == {"p.html", "q.js", "r.js"}

CssPaths == {"s.css", "t.css"}

----------------------------------------------------------------------------
(* compressCode and concatFiles *)

\* The calls into UglifyJS made inside the try block, in order.
UglifySteps ==
  <<"parse", "figure_out_scope", "Compressor", "transform", "figure_out_scope_2",
    "compute_char_frequency", "mangle_names", "print_to_string">>

Throwers == {"none"} \cup {UglifySteps[i] : i \in DOMAIN UglifySteps}

\* ast.print_to_string(): the compacted text.  UglifyJS is an external
\* library; its output is modelled as the code without its white space.
print_to_string(code) == SelectSeq(code, LAMBDA c : c # " ")

\* compressCode losing the text when a step throws
compressCodeLosesText(code, thrower) ==
  IF thrower = "none" THEN print_to_string(code) ELSE <<>>

\* The text compressCode returns when the step `thrower' throws ("none": no
\* step throws).  `code' is assigned only by the last statement of the try
\* block; the catch block is empty.
compressCode(code, thrower) ==
  IF thrower = "none" THEN print_to_string(code) ELSE code

\* `compressor = UglifyJS.Compressor()' assigns an undeclared name: it is
\* reached, and writes the global object, unless an earlier step or the call
\* itself throws.
writesCompressor(thrower) ==
  thrower \notin {"parse", "figure_out_scope", "Compressor"}

----------------------------------------------------------------------------
(* CSS text: tokens, and the syntax tree (CssSyntaxTree.js, specification   *)
(* sections 3 and 4.1)                                                      *)

Tok(t, v) == [t |-> t, v |-> v]

Delim == Tok("delim", ",")
Space == Tok("s", " ")
Block == Tok("block", "{x:1}")
AtClose == Tok("atclose", "}")

\* The selector parts whose usage is tested, and those that pass through.
QualifyingTypes == {"clazz", "shash", "ident", "attrib"}

\* Tree nodes.  A rule keeps its twigs and its (opaque) declaration block; a
\* conditional at-rule keeps its prelude and its nested stylesheet; every
\* other node (white space, comment, non-conditional at-rule) keeps its text.
Leaf(tk) == [type |-> tk.t, v |-> tk.v, twigs |-> <<>>, children |-> <<>>]
Ruleset(twigs, block) == [type |-> "ruleset", v |-> block, twigs |-> twigs, children |-> <<>>]
AtRulers(prelude, children) ==
  [type |-> "atrulers", v |-> prelude, twigs |-> <<>>, children |-> children]

\* Index of the first token of type t at or after position i (Len + 1: none)
RECURSIVE firstOf(_, _, _)
firstOf(toks, t, i) ==
  IF i > Len(toks) THEN i
  ELSE IF toks[i].t = t THEN i ELSE firstOf(toks, t, i + 1)

\* A selector split into its comma-separated twigs
RECURSIVE splitTwigs(_)
splitTwigs(sel) ==
  LET d == firstOf(sel, "delim", 1)
  IN IF d > Len(sel) THEN <<sel>>
     ELSE <<SubSeq(sel, 1, d - 1)>> \o splitTwigs(SubSeq(sel, d + 1, Len(sel)))

\* Index of the `}' that closes the block open at position i (depth: the
\* blocks opened since)
RECURSIVE closeOf(_, _, _)
closeOf(toks, i, depth) ==
  IF i > Len(toks) THEN i
  ELSE IF toks[i].t = "atclose"
    THEN IF depth = 0 THEN i ELSE closeOf(toks, i + 1, depth - 1)
  ELSE IF toks[i].t = "atopen" THEN closeOf(toks, i + 1, depth + 1)
  ELSE closeOf(toks, i + 1, depth)

\* Descent over the nested block structure: the nodes of a stylesheet.  White
\* space before a selector is a node of its own; white space inside a
\* selector belongs to its twig.
RECURSIVE parseNodes(_)
parseNodes(toks) ==
  IF Len(toks) = 0 THEN <<>>
  ELSE IF toks[1].t \in {"s", "comment", "atrule"}
  THEN <<Leaf(toks[1])>> \o parseNodes(Tail(toks))
  ELSE IF toks[1].t = "atopen"
  THEN LET c == closeOf(toks, 2, 0)
       IN <<AtRulers(toks[1].v, parseNodes(SubSeq(toks, 2, c - 1)))>>
            \o parseNodes(SubSeq(toks, c + 1, Len(toks)))
  ELSE LET b == firstOf(toks, "block", 1)
       IN <<Ruleset(splitTwigs(SubSeq(toks, 1, b - 1)), toks[b].v)>>
            \o parseNodes(SubSeq(toks, b + 1, Len(toks)))

\* new CssSyntaxTree(cssString)
CssSyntaxTree(text) == parseNodes(text)

\* twigs joined by their delimiters
RECURSIVE joinTwigs(_)
joinTwigs(twigs) ==
  IF Len(twigs) = 0 THEN <<>>
  ELSE IF Len(twigs) = 1 THEN twigs[1]
  ELSE twigs[1] \o <<Delim>> \o joinTwigs(Tail(twigs))

\* tree.toSrc(): the raw text of every node, in order
RECURSIVE toSrc(_)
toSrc(nodes) ==
  IF Len(nodes) = 0 THEN <<>>
  ELSE LET n == nodes[1]
           text == IF n.type = "ruleset"
                     THEN joinTwigs(n.twigs) \o <<Tok("block", n.v)>>
                   ELSE IF n.type = "atrulers"
                     THEN <<Tok("atopen", n.v)>> \o toSrc(n.children) \o <<AtClose>>
                   ELSE <<Tok(n.type, n.v)>>
       IN text \o toSrc(Tail(nodes))

\* The names of the parts of type t in the whole tree, in source order
namesOf(nodes, t) ==
  LET toks == toSrc(nodes)
      parts == SelectSeq(toks, LAMBDA tk : tk.t = t)
  IN [i \in 1..Len(parts) |-> parts[i].v]

\* A name is special when it holds an escaped character
isSpecial(w) == \E i \in 1..Len(chars(w)) : chars(w)[i] = "\\"

treeClasses(nodes) == SelectSeq(namesOf(nodes, "clazz"), LAMBDA w : ~isSpecial(w))
treeSpecialClasses(nodes) == SelectSeq(namesOf(nodes, "clazz"), isSpecial)
treeIds(nodes) == SelectSeq(namesOf(nodes, "shash"), LAMBDA w : ~isSpecial(w))
treeSpecialIds(nodes) == SelectSeq(namesOf(nodes, "shash"), isSpecial)
treeAttrSelectors(nodes) == namesOf(nodes, "attrib")

----------------------------------------------------------------------------
(* ContentSelectorExtraction.js (specification section 4.3)                 *)

InSeq(x, s) == \E i \in 1..Len(s) : s[i] = x

\* a name without its escape markers
stripEscapes(w) == SelectSeq(chars(w), LAMBDA c : c # "\\")

\* extraction.filter(words): the words that occur in the content, as a
\* case-insensitive substring
extractionFilter(text, words) ==
  SelectSeq(words, LAMBDA w : includes(toLowerCase(text), toLowerCase(chars(w))))

\* extraction.filterBySearch(words): the same test after stripping the escapes
extractionFilterBySearch(text, words) ==
  SelectSeq(words, LAMBDA w : includes(toLowerCase(text), toLowerCase(stripEscapes(w))))

----------------------------------------------------------------------------
(* The selector filter of CssSyntaxTree.js (specification section 4.4)      *)

\* The usage test of one selector part; combinators, pseudo-classes,
\* pseudo-elements and the universal selector pass through.
partPasses(p, classes, usedHtmlEls, ids, attrSelectors) ==
  CASE p.t = "clazz" -> InSeq(p.v, classes)
    [] p.t = "shash" -> InSeq(p.v, ids)
    [] p.t = "ident" -> InSeq(p.v, usedHtmlEls)
    [] p.t = "attrib" -> InSeq(p.v, attrSelectors)
    [] OTHER -> TRUE

twigPasses(twig, classes, usedHtmlEls, ids, attrSelectors) ==
  \A i \in 1..Len(twig) : partPasses(twig[i], classes, usedHtmlEls, ids, attrSelectors)

\* The rules of one stylesheet level filtered twig by twig: a rule left with
\* no twig is removed.
RECURSIVE keptRules(_, _, _, _, _)
keptRules(nodes, classes, usedHtmlEls, ids, attrSelectors) ==
  IF Len(nodes) = 0 THEN <<>>
  ELSE LET n == nodes[1]
           kept == SelectSeq(n.twigs,
                     LAMBDA tw : twigPasses(tw, classes, usedHtmlEls, ids, attrSelectors))
       IN (IF n.type # "ruleset" THEN <<n>>
           ELSE IF Len(kept) = 0 THEN <<>>
           ELSE <<Ruleset(kept, n.v)>>)
            \o keptRules(Tail(nodes), classes, usedHtmlEls, ids, attrSelectors)

\* The twigs rejected at one stylesheet level, in the order met
RECURSIVE rejectedRules(_, _, _, _, _)
rejectedRules(nodes, classes, usedHtmlEls, ids, attrSelectors) ==
  IF Len(nodes) = 0 THEN <<>>
  ELSE SelectSeq(nodes[1].twigs,
         LAMBDA tw : ~twigPasses(tw, classes, usedHtmlEls, ids, attrSelectors))
         \o rejectedRules(Tail(nodes), classes, usedHtmlEls, ids, attrSelectors)

\* tree.filterSelectors(classes, usedHtmlEls, ids, attrSelectors): filters the
\* rules of the stylesheet and returns the rejected twigs.  purify keeps the
\* twigs rejected here apart from those filterAtRules rejects
\* (rejectedSelectorTwigs, rejectedAtRuleTwigs): the rules nested in at-rules
\* are filtered by filterAtRules.
filterSelectors(nodes, classes, usedHtmlEls, ids, attrSelectors) ==
  [nodes |-> keptRules(nodes, classes, usedHtmlEls, ids, attrSelectors),
   rejected |-> rejectedRules(nodes, classes, usedHtmlEls, ids, attrSelectors)]

\* a stylesheet level holds a rule or an at-rule
holdsRule(nodes) ==
  \E i \in 1..Len(nodes) : nodes[i].type \in {"ruleset", "atrulers", "atrule"}

\* The conditional at-rules of one level with their nested rules filtered,
\* recursively; a conditional at-rule left with no nested rule is removed.
RECURSIVE keptAtRules(_, _, _, _, _)
keptAtRules(nodes, classes, usedHtmlEls, ids, attrSelectors) ==
  IF Len(nodes) = 0 THEN <<>>
  ELSE LET n == nodes[1]
           inner == keptAtRules(
                      keptRules(n.children, classes, usedHtmlEls, ids, attrSelectors),
                      classes, usedHtmlEls, ids, attrSelectors)
       IN (IF n.type # "atrulers" THEN <<n>>
           ELSE IF ~holdsRule(inner) THEN <<>>
           ELSE <<AtRulers(n.v, inner)>>)
            \o keptAtRules(Tail(nodes), classes, usedHtmlEls, ids, attrSelectors)

\* The twigs rejected inside the conditional at-rules, in the order met
RECURSIVE rejectedAtRules(_, _, _, _, _)
rejectedAtRules(nodes, classes, usedHtmlEls, ids, attrSelectors) ==
  IF Len(nodes) = 0 THEN <<>>
  ELSE rejectedRules(nodes[1].children, classes, usedHtmlEls, ids, attrSelectors)
         \o rejectedAtRules(
              keptRules(nodes[1].children, classes, usedHtmlEls, ids, attrSelectors),
              classes, usedHtmlEls, ids, attrSelectors)
         \o rejectedAtRules(Tail(nodes), classes, usedHtmlEls, ids, attrSelectors)

\* tree.filterAtRules(...): the same criterion applied to the rules nested in
\* conditional at-rules, and the twigs it rejected.
filterAtRules(nodes, classes, usedHtmlEls, ids, attrSelectors) ==
  [nodes |-> keptAtRules(nodes, classes, usedHtmlEls, ids, attrSelectors),
   rejected |-> rejectedAtRules(nodes, classes, usedHtmlEls, ids, attrSelectors)]

----------------------------------------------------------------------------
(* purifycss.js: files, options, reporting                                  *)

\* fs.readFileSync(file, 'utf8') of the files that exist
ReadFile(file) ==
  CASE file = "p.html" -> <<"A", " ", "b">>
    [] file = "q.js" -> <<"a", " ", "b">>
    [] file = "r.js" -> <<"g">>
    [] file = "s.css" -> <<Tok("clazz", "a"), Block>>
    [] file = "t.css" ->
         <<Tok("atopen", "@media screen{"), Tok("clazz", "ab"), Block, AtClose,
           Tok("ident", "g"), Block>>

Exists(file) == file \in ContentPaths \cup CssPaths

\* the character ' ' in the representation of the file's text
blank(file) == IF file \in CssPaths THEN Space ELSE " "

\* concatFiles(files, options): files.reduce(total + code + ' ', '').  thr[i]
\* is the UglifyJS step that throws on file i.
RECURSIVE concatFrom(_, _, _, _)
concatFrom(files, opts, thr, i) ==
  IF i > Len(files) THEN <<>>
  ELSE LET code == ReadFile(files[i])
           text == IF opts.compress THEN compressCode(code, thr[i]) ELSE code
       IN text \o <<blank(files[i])>> \o concatFrom(files, opts, thr, i + 1)

concatFiles(files, opts, thr) == concatFrom(files, opts, thr, 1)

\* JavaScript objects are functions from their own keys to values
get(o, k) == IF k \in DOMAIN o THEN o[k] ELSE "undefined"

truthy(v) == v \notin {"undefined", "false", "null", ""}

\* _.extend({}, a, b)
extend(a, b) == [k \in DOMAIN a \cup DOMAIN b |-> IF k \in DOMAIN b THEN b[k] ELSE a[k]]

EmptyObject == [k \in {} |-> "undefined"]

\* getRuleString(twig), as the sequence of the pieces it concatenates
RECURSIVE getRuleString(_)
getRuleString(twig) ==
  IF Len(twig) = 0 THEN <<>>
  ELSE LET rulePart == twig[1]
           piece == CASE rulePart.t = "s" ->
                            IF rulePart.v # "\n" THEN <<rulePart.v>> ELSE <<>>
                      [] rulePart.t = "clazz" -> <<".", rulePart.v>>
                      [] rulePart.t = "shash" -> <<"#", rulePart.v>>
                      [] rulePart.t = "ident" -> <<rulePart.v>>
                      [] rulePart.t = "attrib" -> <<"[", rulePart.v, "]">>
                      [] OTHER -> <<"Unsupported: ", "JSON.stringify(twig)">>
       IN piece \o getRuleString(Tail(twig))

\* printInfo: the lengths it logs
printInfo(beginningLength, endingLength) ==
  [kind |-> "info", before |-> beginningLength, after |-> endingLength, lines |-> <<>>]

\* printRejected: the rule strings it logs, in the order of rejectedTwigs
printRejected(rejectedTwigs) ==
  [kind |-> "rejected", before |-> 0, after |-> 0,
   lines |-> [i \in 1..Len(rejectedTwigs) |-> getRuleString(rejectedTwigs[i])]]

\* new CleanCss().minify(source).styles.  clean-css is an external library;
\* its output is modelled as the text without white space between the nodes
\* and without comments.
RECURSIVE stripNodes(_)
stripNodes(nodes) ==
  IF Len(nodes) = 0 THEN <<>>
  ELSE LET n == nodes[1]
       IN IF n.type \in {"s", "comment"} THEN stripNodes(Tail(nodes))
          ELSE IF n.type = "atrulers"
            THEN <<AtRulers(n.v, stripNodes(n.children))>> \o stripNodes(Tail(nodes))
          ELSE <<n>> \o stripNodes(Tail(nodes))

minify(text) == toSrc(stripNodes(CssSyntaxTree(text)))

----------------------------------------------------------------------------
(* purifycss.js: purify                                                     *)

Object(o) == [kind |-> "object", obj |-> o]
NoOptions == [kind |-> "undefined", obj |-> EmptyObject]
FunctionAsOptions == [kind |-> "function", obj |-> EmptyObject]

\* lines 28-31: a function given as options is the callback
callbackOf(opts, cb) == IF opts.kind = "function" THEN "fn" ELSE cb

\* lines 28-33: options = _.extend({}, DEFAULT_OPTIONS, options || {})
optionsOf(opts, defs) ==
  extend(defs, IF opts.kind = "object" THEN opts.obj ELSE EmptyObject)

\* cssStringOf with the separator of concatFiles added to a css string too
cssStringOfJoined(cs) ==
  IF cs.array THEN concatFiles(cs.val, [compress |-> FALSE], <<>>)
  ELSE cs.val \o <<Space>>

\* line 35
cssStringOf(cs) ==
  IF cs.array THEN concatFiles(cs.val, [compress |-> FALSE], <<>>) ELSE cs.val

\* lines 36-40
contentOf(st, thr) ==
  toLowerCase(IF st.array THEN concatFiles(st.val, [compress |-> TRUE], thr)
              ELSE compressCode(st.val, thr[1]))

\* fs.readFileSync throws on the first file that does not exist
missing(arg) == arg.array /\ \E i \in 1..Len(arg.val) : ~Exists(arg.val[i])

firstMissing(arg) ==
  IF missing(arg)
    THEN CHOOSE i \in 1..Len(arg.val) :
           ~Exists(arg.val[i]) /\ \A j \in 1..(i - 1) : Exists(arg.val[j])
  ELSE IF arg.array THEN Len(arg.val) + 1 ELSE 2

\* some compressCode call of this invocation assigns the global `compressor'
assignsCompressor(st, cs, thr) ==
  /\ ~missing(cs)
  /\ \E i \in 1..(firstMissing(st) - 1) : writesCompressor(thr[i])

\* lines 51-59: the names found in the content
usedClasses(nodes, text) ==
  extractionFilter(text, treeClasses(nodes))
    \o extractionFilterBySearch(text, treeSpecialClasses(nodes))

usedIds(nodes, text) ==
  extractionFilter(text, treeIds(nodes))
    \o extractionFilterBySearch(text, treeSpecialIds(nodes))

usedAttrSelectors(nodes, text) == extractionFilterBySearch(text, treeAttrSelectors(nodes))

usedHtmlEls(text, els) == extractionFilter(text, els)

\* narrowTree with the used ids handed over in the place of the used classes
narrowTreeIdsForClasses(nodes, classes, usedEls, ids, attrSelectors) ==
  [nodes |-> filterAtRules(
               filterSelectors(nodes, ids, usedEls, classes, attrSelectors).nodes,
               ids, usedEls, classes, attrSelectors).nodes,
   rejectedSelectorTwigs |->
     filterSelectors(nodes, ids, usedEls, classes, attrSelectors).rejected,
   rejectedAtRuleTwigs |->
     filterAtRules(
       filterSelectors(nodes, ids, usedEls, classes, attrSelectors).nodes,
       ids, usedEls, classes, attrSelectors).rejected]

\* narrowTree without the call of filterAtRules
narrowTreeNoAtRules(nodes, classes, usedEls, ids, attrSelectors) ==
  [nodes |-> filterSelectors(nodes, classes, usedEls, ids, attrSelectors).nodes,
   rejectedSelectorTwigs |->
     filterSelectors(nodes, classes, usedEls, ids, attrSelectors).rejected,
   rejectedAtRuleTwigs |-> <<>>]

\* lines 61-63: the tree narrowed, and the two lists of rejected twigs
narrowTree(nodes, classes, usedEls, ids, attrSelectors) ==
  [nodes |-> filterAtRules(
               filterSelectors(nodes, classes, usedEls, ids, attrSelectors).nodes,
               classes, usedEls, ids, attrSelectors).nodes,
   rejectedSelectorTwigs |->
     filterSelectors(nodes, classes, usedEls, ids, attrSelectors).rejected,
   rejectedAtRuleTwigs |->
     filterAtRules(
       filterSelectors(nodes, classes, usedEls, ids, attrSelectors).nodes,
       classes, usedEls, ids, attrSelectors).rejected]

\* line 77: the list handed to printRejected
rejectedList(narrowed) ==
  narrowed.rejectedSelectorTwigs \o narrowed.rejectedAtRuleTwigs

\* lines 66-70
sourceOf(narrowed, opts) ==
  IF truthy(get(opts, "minify")) THEN minify(toSrc(narrowed.nodes))
  ELSE toSrc(narrowed.nodes)

\* lines 80-86: the destination of an fs.writeFile, "undefined" when the
\* source is returned instead
writeTarget(opts) ==
  IF ~truthy(get(opts, "output")) THEN "undefined" ELSE get(opts, "output")

\* lines 72-78
logged(opts, beginningLength, src, rejectedTwigs) ==
  (IF truthy(get(opts, "info")) THEN <<printInfo(beginningLength, Len(src))>> ELSE <<>>)
    \o (IF truthy(get(opts, "rejected")) THEN <<printRejected(rejectedTwigs)>> ELSE <<>>)

----------------------------------------------------------------------------
(* The inputs of the model                                                  *)

Parts ==
  {Tok("clazz", "a"), Tok("clazz", "ab"), Tok("clazz", "A"), Tok("clazz", "a\\:"),
   Tok("shash", "b"), Tok("ident", "a"), Tok("ident", "g"), Tok("attrib", "ab")}

Twigs ==
  {<<p>> : p \in Parts}
    \cup {<<Tok("univ", "*")>>,
          <<Tok("ident", "a"), Tok("pseudo", ":hover")>>,
          <<Tok("clazz", "a"), Space, Tok("shash", "b")>>,
          <<Tok("ident", "g"), Space, Tok("clazz", "a")>>,
          <<Tok("ident", "a"), Tok("clazz", "ab")>>}

FewTwigs == {<<Tok("clazz", "a")>>, <<Tok("shash", "b")>>, <<Tok("ident", "g")>>}

\* the text of a rule with one twig, and with two
Rules ==
  {tw \o <<Block>> : tw \in Twigs}
    \cup {t1 \o <<Delim, Space>> \o t2 \o <<Block>> : t1 \in FewTwigs, t2 \in FewTwigs}

FewRules ==
  {tw \o <<Block>> : tw \in FewTwigs}
    \cup {<<Tok("clazz", "a"), Delim, Tok("shash", "b"), Block>>}

Media(body) == <<Tok("atopen", "@media screen{")>> \o body \o <<AtClose>>
Supports(body) == <<Tok("atopen", "@supports (x:1){")>> \o body \o <<AtClose>>

FontFace == <<Tok("atrule", "@font-face{x:1}")>>
Comment == <<Tok("comment", "/*c*/")>>

\* the text of the nodes a generated stylesheet is made of
FewNodes ==
  FewRules
    \cup {Media(r) : r \in FewRules}
    \cup {Supports(Media(tw \o <<Block>>)) : tw \in FewTwigs}
    \cup {Media(<<>>), Media(<<Tok("clazz", "a"), Block, Space, Tok("ident", "g"), Block>>)}
    \cup {FontFace, Comment, <<Space>>}

RECURSIVE flatten(_)
flatten(texts) == IF Len(texts) = 0 THEN <<>> ELSE texts[1] \o flatten(Tail(texts))

Stylesheets == {flatten(q) : q \in SeqsUpTo(FewNodes, MaxNodes)}

Contents == SeqsUpTo(Alphabet, MaxContentLen)

FewContents == {<<>>, <<"a">>, <<"A", "b">>, <<"g">>}

ContentArrays == SeqsUpTo(ContentPaths \cup {"nope.html"}, MaxFiles)

CssArrays == SeqsUpTo(CssPaths \cup {"nope.css"}, MaxFiles)

Text(val) == [array |-> FALSE, val |-> val]
Files(val) == [array |-> TRUE, val |-> val]

\* the caller's options objects
OptionKeys == {"write", "minify", "info", "rejected", "output"}

OptionValues(k) ==
  CASE k = "write" -> {"false", "w.css"}
    [] k = "output" -> {"o.css"}
    [] OTHER -> {"true"}

OptionObjects ==
  UNION {{o \in [K -> {"false", "true", "w.css", "o.css"}] :
            \A k \in K : o[k] \in OptionValues(k)} : K \in SUBSET OptionKeys}

----------------------------------------------------------------------------
(* The state machine                                                        *)

NoResult == [kind |-> "none", val |-> <<>>]

NoUsage == [classes |-> <<>>, usedHtmlEls |-> <<>>, ids |-> <<>>, attrSelectors |-> <<>>]

InitRest ==
  /\ defaults = DEFAULT_OPTIONS
  /\ elements = htmlEls
  /\ compressor = "undefined"
  /\ pc = "ready"
  /\ calls = 0
  /\ returned = NoResult
  /\ cbArgs = <<>>
  /\ stderr = <<>>
  /\ pending = <<>>
  /\ disk = {}
  /\ writeFailed = FALSE
  /\ content = <<>>
  /\ cssString = <<>>
  /\ source = <<>>
  /\ rejected = <<>>
  /\ firstSource = <<>>
  /\ firstCssString = <<>>
  /\ usage = NoUsage

\* one rule, any content
InitSelectors ==
  /\ css \in {Text(r) : r \in Rules}
  /\ searchThrough \in {Text(c) : c \in Contents}
  /\ throwAt \in {<<"none">>, <<"parse">>}
  /\ options = NoOptions
  /\ callback = "undefined"

\* stylesheets of several nodes
InitStylesheets ==
  /\ css \in {Text(s) : s \in Stylesheets}
  /\ searchThrough \in {Text(c) : c \in FewContents}
  /\ throwAt = <<"parse">>
  /\ options \in {NoOptions, Object([rejected |-> "true"])}
  /\ callback = "undefined"

\* arrays of content files
InitContentFiles ==
  /\ css \in {Text(ReadFile("t.css")), Files(<<"s.css">>)}
  /\ searchThrough \in {Files(a) : a \in ContentArrays}
  /\ throwAt \in [1..Len(searchThrough.val) -> {"none", "parse", "mangle_names"}]
  /\ options = NoOptions
  /\ callback = "undefined"

\* arrays of css files
InitCssFiles ==
  /\ css \in {Files(a) : a \in CssArrays}
  /\ searchThrough \in {Text(c) : c \in FewContents}
  /\ throwAt = <<"parse">>
  /\ options = NoOptions
  /\ callback = "undefined"

\* one content string, every UglifyJS outcome
InitCompress ==
  /\ css \in {Text(r) : r \in FewRules}
  /\ searchThrough \in {Text(c) : c \in FewContents \cup {<<"a", " ", "b">>}}
  /\ throwAt \in [1..1 -> Throwers]
  /\ options = NoOptions
  /\ callback = "undefined"

\* the options and the callback
InitOptions ==
  /\ css \in {Text(ReadFile("t.css")), Text(<<Space>> \o ReadFile("s.css") \o Comment)}
  /\ searchThrough \in {Text(<<"a">>), Text(<<"g">>)}
  /\ throwAt = <<"parse">>
  /\ options \in {NoOptions, FunctionAsOptions} \cup {Object(o) : o \in OptionObjects}
  /\ callback \in {"undefined", "fn"}

Init ==
  /\ \/ InitSelectors
     \/ InitStylesheets
     \/ InitContentFiles
     \/ InitCssFiles
     \/ InitCompress
     \/ InitOptions
  /\ InitRest

\* purify(searchThrough, css, options, callback), lines 27-87.  The bound
\* names are the local variables of the function.
Purify ==
  /\ pc = "ready"
  /\ pc' = "returned"
  /\ calls' = calls + 1
  /\ IF missing(css) \/ missing(searchThrough)
       THEN /\ returned' = [kind |-> "thrown", val |-> <<>>]
            /\ UNCHANGED <<cbArgs, stderr, pending, content, cssString, source,
                           rejected, firstSource, firstCssString, usage>>
       ELSE \E opts \in {optionsOf(options, defaults)},
               cb \in {callbackOf(options, callback)},
               text \in {cssStringOf(css)},
               corpus \in {contentOf(searchThrough, throwAt)} :
            \E tree \in {CssSyntaxTree(text)} :
            \E classes \in {usedClasses(tree, corpus)},
               ids \in {usedIds(tree, corpus)},
               attrSelectors \in {usedAttrSelectors(tree, corpus)},
               usedEls \in {usedHtmlEls(corpus, elements)} :
            \E narrowed \in {narrowTree(tree, classes, usedEls, ids, attrSelectors)} :
            \E src \in {sourceOf(narrowed, opts)},
               rejectedTwigs \in {rejectedList(narrowed)} :
               /\ content' = corpus
               /\ cssString' = text
               /\ source' = src
               /\ rejected' = rejectedTwigs
               /\ usage' = [classes |-> classes, usedHtmlEls |-> usedEls, ids |-> ids,
                            attrSelectors |-> attrSelectors]
               /\ firstSource' = IF calls = 0 THEN src ELSE firstSource
               /\ firstCssString' = IF calls = 0 THEN text ELSE firstCssString
               /\ stderr' = stderr \o logged(opts, Len(text), src, rejectedTwigs)
               /\ IF writeTarget(opts) = "undefined"
                    THEN /\ pending' = pending
                         /\ IF cb = "fn"
                              THEN /\ cbArgs' = Append(cbArgs, [kind |-> "source", val |-> src])
                                   /\ returned' = [kind |-> "callbackResult", val |-> <<>>]
                              ELSE /\ cbArgs' = cbArgs
                                   /\ returned' = [kind |-> "source", val |-> src]
                    ELSE /\ pending' = Append(pending,
                                         [path |-> writeTarget(opts), data |-> src])
                         /\ cbArgs' = cbArgs
                         /\ returned' = [kind |-> "undefined", val |-> <<>>]
  /\ compressor' = IF assignsCompressor(searchThrough, css, throwAt)
                     THEN "Compressor" ELSE compressor
  /\ UNCHANGED <<searchThrough, css, options, callback, throwAt, defaults, elements,
                 disk, writeFailed>>

\* The completion of an fs.writeFile: function(err){ if(err) return err; }.
\* What the function returns goes to the fs module.
WriteFileDone ==
  /\ pending # <<>>
  /\ \E err \in {"null", "EACCES"} :
       IF err = "null"
         THEN disk' = disk \cup {Head(pending)} /\ writeFailed' = writeFailed
         ELSE disk' = disk /\ writeFailed' = TRUE
  /\ pending' = Tail(pending)
  /\ UNCHANGED <<searchThrough, css, options, callback, throwAt, defaults, elements,
                 compressor, pc, calls, returned, cbArgs, stderr, content, cssString,
                 source, rejected, firstSource, firstCssString, usage>>

\* The caller purifies the css it was returned, against the same content
Repurify ==
  /\ pc = "returned"
  /\ calls < MaxCalls
  /\ returned.kind = "source"
  /\ css' = Text(returned.val)
  /\ pc' = "ready"
  /\ UNCHANGED <<searchThrough, options, callback, throwAt, defaults, elements,
                 compressor, calls, returned, cbArgs, stderr, pending, disk,
                 writeFailed, content, cssString, source, rejected, firstSource,
                 firstCssString, usage>>

Next == Purify \/ WriteFileDone \/ Repurify

Spec == Init /\ [][Next]_vars

----------------------------------------------------------------------------
(* Vocabulary of the properties                                             *)

\* an invocation has returned normally
Done == pc = "returned" /\ returned.kind # "thrown"

\* the twigs of all rules, nested ones included, in source order
RECURSIVE allTwigs(_)
allTwigs(nodes) ==
  IF Len(nodes) = 0 THEN <<>>
  ELSE (IF nodes[1].type = "ruleset" THEN nodes[1].twigs
        ELSE allTwigs(nodes[1].children))
         \o allTwigs(Tail(nodes))

\* a twig without the white space around it
RECURSIVE trim(_)
trim(tw) ==
  IF Len(tw) = 0 THEN tw
  ELSE IF tw[1].t = "s" THEN trim(Tail(tw))
  ELSE IF tw[Len(tw)].t = "s" THEN trim(SubSeq(tw, 1, Len(tw) - 1))
  ELSE tw

trimAll(twigs) == [i \in 1..Len(twigs) |-> trim(twigs[i])]

inTwigs == allTwigs(CssSyntaxTree(cssString))
outTwigs == allTwigs(CssSyntaxTree(source))

\* the name of a selector part occurs in the corpus, whatever its case
occurs(p) == includes(content, toLowerCase(stripEscapes(p.v)))

twigOccurs(tw) ==
  \A i \in 1..Len(tw) : tw[i].t \in QualifyingTypes => occurs(tw[i])

\* the part is in the usage set of its kind
inUsage(p) ==
  /\ p.t = "clazz" => InSeq(p.v, usage.classes)
  /\ p.t = "shash" => InSeq(p.v, usage.ids)
  /\ p.t = "ident" => InSeq(p.v, usage.usedHtmlEls)
  /\ p.t = "attrib" => InSeq(p.v, usage.attrSelectors)

allInUsage(tw) == \A i \in 1..Len(tw) : inUsage(tw[i])

tokensOf(text, t) == SelectSeq(text, LAMBDA tk : tk.t = t)

----------------------------------------------------------------------------
(* C1: a twig whose class, id, tag and attribute parts all occur in the     *)
(* content corpus (case-insensitively) is present in the purified output.   *)
UsedTwigNeverDropped ==
  Done =>
    \A i \in 1..Len(inTwigs) :
       twigOccurs(inTwigs[i]) => InSeq(trim(inTwigs[i]), trimAll(outTwigs))

(* C2: the twigs retained are exactly the twigs all of whose class, id, tag *)
(* and attribute parts are in the usage set of their kind; combinators,     *)
(* pseudo-classes and the universal selector reject nothing.                *)
TwigRetainedIffAllPartsUsed ==
  Done => trimAll(outTwigs) = trimAll(SelectSeq(inTwigs, allInUsage))

\* a twig with a used part and an unused part was dropped
TwigRetainedIffAllPartsUsedWitness ==
  /\ Done
  /\ \E i \in 1..Len(inTwigs) :
       /\ \E k \in 1..Len(inTwigs[i]) :
            inTwigs[i][k].t \in QualifyingTypes /\ inUsage(inTwigs[i][k])
       /\ ~allInUsage(inTwigs[i])
       /\ ~InSeq(trim(inTwigs[i]), trimAll(outTwigs))

\* the preludes of the conditional at-rules that hold, at any depth, a twig
\* all of whose parts are used; in source order
RECURSIVE survivingAtRules(_)
survivingAtRules(nodes) ==
  IF Len(nodes) = 0 THEN <<>>
  ELSE LET n == nodes[1]
           inside == allTwigs(n.children)
       IN (IF n.type = "atrulers" /\ \E i \in 1..Len(inside) : allInUsage(inside[i])
             THEN <<Tok("atopen", n.v)>> \o survivingAtRules(n.children)
           ELSE <<>>)
            \o survivingAtRules(Tail(nodes))

mergedOptions == optionsOf(options, defaults)

(* C4: purifying the purified css against the same content returns the     *)
(* same css, the options being the default ones.                            *)
PurifyIdempotent ==
  (Done /\ calls >= 2 /\ returned.kind = "source" /\ mergedOptions = DEFAULT_OPTIONS)
    => source = firstSource

\* the first invocation pruned something and left something, and the css it
\* returned was purified again
PurifyIdempotentWitness ==
  /\ Done /\ calls >= 2 /\ returned.kind = "source"
  /\ mergedOptions = DEFAULT_OPTIONS
  /\ firstSource # firstCssString
  /\ firstSource # <<>>
  /\ source = firstSource

\* the texts of the files, each followed by one space
RECURSIVE joinedFiles(_)
joinedFiles(files) ==
  IF Len(files) = 0 THEN <<>>
  ELSE ReadFile(files[1]) \o <<Space>> \o joinedFiles(Tail(files))

(* C5: when the class, id, tag and attribute parts of every selector occur  *)
(* in the corpus, the output is the input css; for an array of css files    *)
(* the input css is the files' texts with one space added per file.         *)
RoundTripWhenAllPartsOccur ==
  (/\ Done
   /\ ~truthy(get(mergedOptions, "minify"))
   /\ \A i \in 1..Len(inTwigs) : twigOccurs(inTwigs[i]))
    => /\ source = cssString
       /\ css.array => cssString = joinedFiles(css.val)

\* The round trip of a stylesheet from which nothing was pruned: no twig was
\* rejected and no at-rule removed.
RoundTripWhenNothingPruned ==
  (/\ Done
   /\ ~truthy(get(mergedOptions, "minify"))
   /\ rejected = <<>>
   /\ Len(tokensOf(source, "atopen")) = Len(tokensOf(cssString, "atopen")))
    => /\ source = cssString
       /\ css.array => cssString = joinedFiles(css.val)

(* C6: an invocation whose `write' option is a file path writes the         *)
(* purified css to that path; one whose `write' option is false returns the *)
(* purified css, or passes it to the callback.                              *)
WriteOptionDecidesDelivery ==
  [][(pc = "ready" /\ pc' = "returned" /\ returned'.kind # "thrown") =>
       IF truthy(get(mergedOptions, "write"))
         THEN pending' = Append(pending, [path |-> get(mergedOptions, "write"),
                                          data |-> source'])
         ELSE \/ returned' = [kind |-> "source", val |-> source']
              \/ /\ callbackOf(options, callback) = "fn"
                 /\ cbArgs' = Append(cbArgs, [kind |-> "source", val |-> source'])]_vars

(* C7: a failed write of the output is observable by the caller: through    *)
(* the value purify returned, an exception, or its callback.                *)
WriteFailureSurfaced ==
  writeFailed =>
    \/ returned.kind \in {"thrown", "error"}
    \/ \E i \in 1..Len(cbArgs) : cbArgs[i].kind = "error"

\* the corpus when each source that fails to compress keeps its raw text
RECURSIVE rawOrCompressed(_, _)
rawOrCompressed(files, i) ==
  IF i > Len(files) THEN <<>>
  ELSE (IF throwAt[i] = "none" THEN print_to_string(ReadFile(files[i]))
        ELSE ReadFile(files[i]))
         \o <<" ">> \o rawOrCompressed(files, i + 1)

(* C8: a step of compressCode that throws is not fatal: the source keeps    *)
(* exactly its raw text in the corpus, and the other files of an array are  *)
(* not affected.                                                            *)
CompressionFailureFallsBack ==
  (pc = "returned" /\ ~missing(css) /\ ~missing(searchThrough)) =>
    /\ returned.kind # "thrown"
    /\ content = toLowerCase(
         IF searchThrough.array THEN rawOrCompressed(searchThrough.val, 1)
         ELSE IF throwAt[1] = "none" THEN print_to_string(searchThrough.val)
         ELSE searchThrough.val)

\* an array in which one file failed to compress and another file, which
\* compression changes, was compressed
CompressionFailureFallsBackWitness ==
  /\ Done
  /\ searchThrough.array
  /\ \E i, j \in 1..Len(searchThrough.val) :
       /\ throwAt[i] # "none"
       /\ print_to_string(ReadFile(searchThrough.val[i])) # ReadFile(searchThrough.val[i])
       /\ throwAt[j] = "none"
       /\ print_to_string(ReadFile(searchThrough.val[j])) # ReadFile(searchThrough.val[j])

(* C9: no invocation writes a process-wide variable, DEFAULT_OPTIONS, the   *)
(* htmlEls list or the caller's options object.                             *)
NoSharedMutableState ==
  [][/\ compressor' = compressor
     /\ defaults' = defaults
     /\ elements' = elements
     /\ options' = options]_vars

====
